---- MODULE Spec2Model ----
(***************************************************************************)
(* Model of the chat-herretics real-time gateway (backend/src/utils/       *)
(* socket.ts as documented in the Socket.io implementation notes): the     *)
(* authentication middleware, the connection and disconnect handlers, the  *)
(* join-chat / leave-chat handlers, the send-message pipeline and the      *)
(* typing relay, running on one event loop against the onlineUsers map,    *)
(* the Socket.io rooms and the Chat / Message collections.                 *)
(***************************************************************************)
EXTENDS Integers, Sequences, FiniteSets, TLC

\* ---------------------------------------------------------------- bounds
\* send-message and typing events issued in one run
MaxRequests == 1
\* send-message events issued in one run of the specification of concurrent sends
MaxPairRequests == 2
\* getOrCreateChat requests issued in one run
MaxChatRequests == 2

\* ---------------------------------------------------------------- inputs
Sockets == {"s1", "s2", "s3"}
Users == {"u1", "u2", "u3"}
\* the chat identifiers clients send: the id of the stored chat, and a string that names no
\* chat and is shaped like a personal room key
ChatIds == {"c1", "user:u1"}
Texts == {"hi"}

NoToken == "undefined"
\* the tokens presented in handshakes: none, the empty string, one the verifier rejects, the
\* tokens of two users, and a token whose subject has no user record
Tokens == {NoToken, "", "bad", "t1", "t2", "t4"}
NoUser == "none"
NoChat == [participants |-> <<>>]
NoMessage == 0

\* ---------------------------------------------------------------- state
VARIABLES
    status,       \* socket -> "idle" | "authed" | "open" | "closed" | "rejected"
    token,        \* socket -> socket.handshake.auth.token
    userId,       \* socket -> socket.data.userId
    verifyCalls,  \* sockets for which verifyToken has been invoked
    onlineUsers,  \* the onlineUsers Map: user id -> socket id
    rooms,        \* socket -> set of room keys it is a member of
    inbox,        \* socket -> sequence of gateway events delivered to it
    chats,        \* Chat collection: chat id -> document
    messages,     \* Message collection: message _id (index) -> document
    sends,        \* send-message handler invocations, in order of arrival
    typings,      \* typing handler invocations, in order of arrival
    quota,        \* the number of send-message and typing events the clients issue in all
    creates,      \* getOrCreateChat controller invocations, in order of arrival
    clock         \* wall clock read by new Date()

vars == <<status, token, userId, verifyCalls, onlineUsers, rooms, inbox,
          chats, messages, sends, typings, quota, creates, clock>>

gateVars == <<token, userId, verifyCalls>>
dbVars == <<chats, messages, clock>>

\* ---------------------------------------------------------------- identity verifier and user directory
\* a variant that tests only for an absent token
FalsyUndefinedOnly(t) == t = NoToken

\* !token
Falsy(t) == t \in {NoToken, ""}

\* verifyToken(token, {secretKey}): the subject of a valid token, "throws" otherwise
VerifyToken(t) ==
    CASE t = "t1" -> "k1"
      [] t = "t2" -> "k2"
      [] t = "t3" -> "k3"
      [] t = "t4" -> "k4"
      [] OTHER -> "throws"

\* User.findOne({ clerkId }): user._id.toString() of the matching record, NoUser when there is none
FindUser(k) ==
    CASE k = "k1" -> "u1"
      [] k = "k2" -> "u2"
      [] k = "k3" -> "u3"
      [] OTHER -> NoUser

\* ---------------------------------------------------------------- room keys
\* `user:${userId}`
UserRoom(u) == "user:" \o u

\* a variant that uses the client's chat identifier as the room key, without the prefix
ChatRoomUnprefixed(c) == c

\* `chat:${chatId}`
ChatRoom(c) == "chat:" \o c

\* ---------------------------------------------------------------- gateway events
Event(type, via, req) ==
    [type |-> type, via |-> via, req |-> req, userId |-> NoUser, userIds |-> {},
     chatId |-> "", msg |-> NoMessage, text |-> "", isTyping |-> FALSE]

Direct == "socket"

OnlineUsersEvent(ids) == [Event("online-users", Direct, 0) EXCEPT !.userIds = ids]
UserOnlineEvent(u) == [Event("user-online", Direct, 0) EXCEPT !.userId = u]
UserOfflineEvent(u) == [Event("user-offline", Direct, 0) EXCEPT !.userId = u]
SocketErrorEvent(r) == Event("socket-error", Direct, r)
ErrorEvent(r) == Event("error", Direct, r)
NewMessageEvent(r, m, doc) ==
    [Event("new-message", Direct, r) EXCEPT
        !.msg = m, !.chatId = doc.chat, !.userId = doc.sender, !.text = doc.text]
TypingEvent(u, c, b) ==
    [Event("typing", Direct, 0) EXCEPT !.userId = u, !.chatId = c, !.isTyping = b]

\* ---------------------------------------------------------------- emission primitives
Connected(st) == {s \in Sockets : st[s] = "open"}

\* socket.emit(ev): to that socket, dropped when it is no longer connected
SocketEmit(st, ib, s, ev) ==
    [x \in Sockets |-> IF x = s /\ st[x] = "open" THEN Append(ib[x], ev) ELSE ib[x]]

\* socket.broadcast.emit(ev): to every connected socket but this one
BroadcastEmit(st, ib, s, ev) ==
    [x \in Sockets |-> IF x # s /\ st[x] = "open" THEN Append(ib[x], ev) ELSE ib[x]]

\* a variant that skips a member that already holds the event through another room
IoToEmitOnce(st, rm, ib, room, ev) ==
    [x \in Sockets |->
        IF /\ st[x] = "open" /\ room \in rm[x]
           /\ \A i \in 1..Len(ib[x]) : ~(ib[x][i].type = ev.type /\ ib[x][i].req = ev.req)
        THEN Append(ib[x], [ev EXCEPT !.via = room]) ELSE ib[x]]

\* io.to(room).emit(ev): to every member of the room
IoToEmit(st, rm, ib, room, ev) ==
    [x \in Sockets |->
        IF st[x] = "open" /\ room \in rm[x]
        THEN Append(ib[x], [ev EXCEPT !.via = room]) ELSE ib[x]]

\* socket.to(room).emit(ev): to every member of the room but this socket
SocketToEmit(st, rm, ib, s, room, ev) ==
    [x \in Sockets |->
        IF x # s /\ st[x] = "open" /\ room \in rm[x]
        THEN Append(ib[x], [ev EXCEPT !.via = room]) ELSE ib[x]]

\* ---------------------------------------------------------------- onlineUsers Map
MapSet(m, k, v) == [x \in DOMAIN m \cup {k} |-> IF x = k THEN v ELSE m[x]]
MapDelete(m, k) == [x \in DOMAIN m \ {k} |-> m[x]]
MapKeys(m) == DOMAIN m

\* ---------------------------------------------------------------- initial state
InitChats == [c \in {"c1"} |->
    [participants |-> <<"u1", "u2">>, lastMessage |-> NoMessage, lastMessageAt |-> 0]]

Init ==
    /\ status = [s \in Sockets |-> "idle"]
    /\ token = [s \in Sockets |-> NoToken]
    /\ userId = [s \in Sockets |-> NoUser]
    /\ verifyCalls = {}
    /\ onlineUsers = <<>>
    /\ rooms = [s \in Sockets |-> {}]
    /\ inbox = [s \in Sockets |-> <<>>]
    /\ chats = InitChats
    /\ messages = <<>>
    /\ sends = <<>>
    /\ typings = <<>>
    /\ quota = MaxRequests
    /\ creates = <<>>
    /\ clock = 1

\* ---------------------------------------------------------------- authentication middleware (io.use)
\* socket ids are generated by the server: the k-th connection attempt gets the k-th id
SocketOrder == <<"s1", "s2", "s3">>
FreshSocket(s) ==
    \E i \in 1..Len(SocketOrder) :
        /\ SocketOrder[i] = s
        /\ status[s] = "idle"
        /\ \A j \in 1..(i - 1) : status[SocketOrder[j]] # "idle"

\* a variant whose catch block calls next() without an error
MiddlewareCatchAdmits(t, lookupThrows) ==
    IF Falsy(t) THEN [verified |-> FALSE, admit |-> FALSE, userId |-> NoUser]
    ELSE LET sub == VerifyToken(t) IN
         IF sub = "throws" \/ lookupThrows
         THEN [verified |-> TRUE, admit |-> TRUE, userId |-> NoUser]
         ELSE [verified |-> TRUE, admit |-> FindUser(sub) # NoUser, userId |-> FindUser(sub)]

\* the middleware's verdict for a handshake token: whether verifyToken is invoked, whether
\* next() admits the connection or next(new Error(...)) refuses it, and the user id bound to
\* socket.data.userId; lookupThrows: User.findOne rejects
Refuse(verified) == [verified |-> verified, admit |-> FALSE, userId |-> NoUser]

Middleware(t, lookupThrows) ==
    IF Falsy(t) THEN Refuse(FALSE)
    ELSE LET sub == VerifyToken(t) IN
         IF sub = "throws" THEN Refuse(TRUE)
         ELSE IF lookupThrows THEN Refuse(TRUE)
         ELSE IF FindUser(sub) = NoUser THEN Refuse(TRUE)
         ELSE [verified |-> TRUE, admit |-> TRUE, userId |-> FindUser(sub)]

\* a client opens a connection with token t; the middleware runs to its next(...) call
Authenticate(s, t, lookupThrows) ==
    /\ FreshSocket(s)
    /\ LET v == Middleware(t, lookupThrows) IN
        /\ token' = [token EXCEPT ![s] = t]
        /\ verifyCalls' = IF v.verified THEN verifyCalls \cup {s} ELSE verifyCalls
        /\ userId' = [userId EXCEPT ![s] = v.userId]
        /\ status' = [status EXCEPT ![s] = IF v.admit THEN "authed" ELSE "rejected"]
    /\ UNCHANGED <<onlineUsers, rooms, inbox, dbVars, sends, typings, quota, creates>>

\* ---------------------------------------------------------------- connection handler
\* a variant that takes the snapshot after registering the user
SnapshotAfterRegister(m, u) == MapKeys(m) \cup {u}

\* socket.emit("online-users", { userIds: Array.from(onlineUsers.keys()) })
SnapshotPayload(m, u) == MapKeys(m)

\* a variant that keeps the entry of a user that already has one
RegisterIfAbsent(m, u, s) == IF u \in DOMAIN m THEN m ELSE MapSet(m, u, s)

\* onlineUsers.set(userId, socket.id)
Register(m, u, s) == MapSet(m, u, s)

\* a variant that emits user-online with io.emit, to every connected socket
AnnounceOnlineToAll(st, ib, s, u) ==
    [x \in Sockets |-> IF st[x] = "open" THEN Append(ib[x], UserOnlineEvent(u)) ELSE ib[x]]

\* socket.broadcast.emit("user-online", { userId })
AnnounceOnline(st, ib, s, u) == BroadcastEmit(st, ib, s, UserOnlineEvent(u))

\* socket.join(`user:${userId}`)
JoinPersonal(rm, s, u) == [rm EXCEPT ![s] = @ \cup {UserRoom(u)}]

\* the body of io.on("connection", ...) for socket s authenticated as u, on the gateway state
\* w = [status, onlineUsers, rooms, inbox]
ConnectionHandler(w, s, u) ==
    LET st == [w.status EXCEPT ![s] = "open"]
        ib1 == SocketEmit(st, w.inbox, s, OnlineUsersEvent(SnapshotPayload(w.onlineUsers, u)))
        ib2 == AnnounceOnline(st, ib1, s, u)
    IN [status |-> st,
        onlineUsers |-> Register(w.onlineUsers, u, s),
        inbox |-> ib2,
        rooms |-> JoinPersonal(w.rooms, s, u)]

Gateway == [status |-> status, onlineUsers |-> onlineUsers, rooms |-> rooms, inbox |-> inbox]

Connection(s) ==
    /\ status[s] = "authed"
    /\ LET w == ConnectionHandler(Gateway, s, userId[s])
       IN /\ status' = w.status
          /\ onlineUsers' = w.onlineUsers
          /\ inbox' = w.inbox
          /\ rooms' = w.rooms
    /\ UNCHANGED <<gateVars, quota, creates, dbVars, sends, typings>>

\* ---------------------------------------------------------------- disconnect handler
\* a variant that keeps the entry while another socket of the user is open
UnregisterUnlessOthers(m, u, s) ==
    IF \E x \in Sockets : x # s /\ status[x] = "open" /\ userId[x] = u
    THEN m ELSE MapDelete(m, u)

\* a variant that deletes the entry only when it still refers to this socket
UnregisterIfCurrent(m, u, s) ==
    IF u \in DOMAIN m /\ m[u] = s THEN MapDelete(m, u) ELSE m

\* onlineUsers.delete(userId)
Unregister(m, u, s) == MapDelete(m, u)

\* a variant that notifies only when the user has no entry left under another socket
AnnounceOfflineIfLast(st, ib, s, u) ==
    IF \E x \in Sockets : x # s /\ st[x] = "open" /\ userId[x] = u
    THEN ib ELSE BroadcastEmit(st, ib, s, UserOfflineEvent(u))

\* socket.broadcast.emit("user-offline", { userId })
AnnounceOffline(st, ib, s, u) == BroadcastEmit(st, ib, s, UserOfflineEvent(u))

Disconnect(s) ==
    /\ status[s] = "open"
    /\ LET u == userId[s]
           st == [status EXCEPT ![s] = "closed"]
       IN /\ status' = st
          /\ rooms' = [rooms EXCEPT ![s] = {}]
          /\ onlineUsers' = Unregister(onlineUsers, u, s)
          /\ inbox' = AnnounceOffline(st, inbox, s, u)
    /\ UNCHANGED <<gateVars, quota, creates, dbVars, sends, typings>>

\* ---------------------------------------------------------------- join-chat / leave-chat
\* handlers are registered inside the connection handler only
CanHandle(s) == status[s] = "open"

\* asynchronous handler invocations (send-message, typing) started so far
Requests == Len(sends) + Len(typings)

JoinChat(s, c) ==
    /\ CanHandle(s)
    /\ rooms' = [rooms EXCEPT ![s] = @ \cup {ChatRoom(c)}]
    /\ UNCHANGED <<status, gateVars, quota, creates, onlineUsers, inbox, dbVars, sends, typings>>

LeaveChat(s, c) ==
    /\ CanHandle(s)
    /\ rooms' = [rooms EXCEPT ![s] = @ \ {ChatRoom(c)}]
    /\ UNCHANGED <<status, gateVars, quota, creates, onlineUsers, inbox, dbVars, sends, typings>>

\* ---------------------------------------------------------------- send-message handler
\* Chat.findOne({ _id: chatId, participants: userId })
InSeq(x, q) == \E i \in 1..Len(q) : q[i] = x

\* a variant that looks the chat up by id alone
FindChatById(db, c, u) ==
    IF c \in DOMAIN db THEN db[c] ELSE NoChat

FindChat(db, c, u) ==
    IF c \in DOMAIN db /\ InSeq(u, db[c].participants) THEN db[c] ELSE NoChat

SetPc(r, pc) == [sends EXCEPT ![r].pc = pc]
Logged(q, r, type, target) == [q EXCEPT ![r].out = Append(@, <<type, target>>)]

\* a variant whose catch block emits the error with io.emit, to every connected socket
SendCatchToAll(r) ==
    /\ sends' = Logged(SetPc(r, "failed"), r, "error", ("socket:" \o sends[r].socket))
    /\ inbox' = [x \in Sockets |->
                    IF status[x] = "open" THEN Append(inbox[x], ErrorEvent(r)) ELSE inbox[x]]

\* catch (error) { socket.emit("error", { message: "Failed to send message" }) }
SendCatch(r) ==
    /\ sends' = Logged(SetPc(r, "failed"), r, "error", ("socket:" \o sends[r].socket))
    /\ inbox' = SocketEmit(status, inbox, sends[r].socket, ErrorEvent(r))

\* the client's send-message event arrives; the handler runs up to await Chat.findOne
SendMessage(s, c, text) ==
    /\ CanHandle(s)
    /\ Requests < quota
    /\ sends' = Append(sends, [socket |-> s, userId |-> userId[s], chatId |-> c, text |-> text,
                               pc |-> "findOne", doc |-> NoChat, msg |-> NoMessage,
                               lastMessage |-> NoMessage, lastMessageAt |-> 0, out |-> <<>>])
    /\ UNCHANGED <<status, gateVars, quota, creates, onlineUsers, rooms, inbox, dbVars, typings>>

\* if(!chat) { socket.emit("socket-error", { message: "Chat not found" }); return }
SendFindOne(r, throws) ==
    /\ sends[r].pc = "findOne"
    /\ IF throws
       THEN SendCatch(r)
       ELSE LET chat == FindChat(chats, sends[r].chatId, sends[r].userId) IN
            IF chat = NoChat
            THEN /\ sends' = Logged(SetPc(r, "rejected"), r, "socket-error",
                                    ("socket:" \o sends[r].socket))
                 /\ inbox' = SocketEmit(status, inbox, sends[r].socket, SocketErrorEvent(r))
            ELSE /\ sends' = [sends EXCEPT ![r].pc = "create",
                                           ![r].doc = [participants |-> chat.participants]]
                 /\ UNCHANGED inbox
    /\ UNCHANGED <<status, gateVars, quota, creates, onlineUsers, rooms, dbVars, typings>>

\* Message.create({ chat: chatId, sender: userId, text })
NewMessage(r) == [chat |-> sends[r].chatId, sender |-> sends[r].userId, text |-> sends[r].text]

\* await Message.create settles; chat.lastMessage / chat.lastMessageAt are set on the loaded
\* document and chat.save() is issued
SendCreate(r, throws) ==
    /\ sends[r].pc = "create"
    /\ IF throws
       THEN SendCatch(r) /\ UNCHANGED <<messages, clock>>
       ELSE /\ messages' = Append(messages, NewMessage(r))
            /\ sends' = [sends EXCEPT ![r].pc = "save", ![r].msg = Len(messages) + 1,
                                      ![r].lastMessage = Len(messages) + 1,
                                      ![r].lastMessageAt = clock]
            /\ clock' = clock + 1
            /\ UNCHANGED inbox
    /\ UNCHANGED <<status, gateVars, quota, creates, onlineUsers, rooms, chats, typings>>

\* chat.save(): writes the modified paths lastMessage and lastMessageAt
SaveChat(db, c, m, at) ==
    [db EXCEPT ![c].lastMessage = m, ![c].lastMessageAt = at]

\* a variant that emits to the chat room as soon as the chat is saved, before populate
SendSaveEmitsEarly(r, throws) ==
    /\ sends[r].pc = "save"
    /\ IF throws
       THEN SendCatch(r) /\ UNCHANGED chats
       ELSE /\ chats' = SaveChat(chats, sends[r].chatId, sends[r].lastMessage,
                                 sends[r].lastMessageAt)
            /\ sends' = SetPc(r, "populate")
            /\ inbox' = IoToEmit(status, rooms, inbox, ChatRoom(sends[r].chatId),
                                 NewMessageEvent(r, sends[r].msg, messages[sends[r].msg]))
    /\ UNCHANGED <<status, gateVars, quota, creates, onlineUsers, rooms, messages, clock, typings>>

SendSave(r, throws) ==
    /\ sends[r].pc = "save"
    /\ IF throws
       THEN SendCatch(r) /\ UNCHANGED chats
       ELSE /\ chats' = SaveChat(chats, sends[r].chatId, sends[r].lastMessage,
                                 sends[r].lastMessageAt)
            /\ sends' = SetPc(r, "populate")
            /\ UNCHANGED inbox
    /\ UNCHANGED <<status, gateVars, quota, creates, onlineUsers, rooms, messages, clock, typings>>

\* a variant that emits to the participants' personal rooms only
FanOutPersonalOnly(c, ps) == [i \in 1..Len(ps) |-> UserRoom(ps[i])]

\* io.to(`chat:${chatId}`).emit(...), then io.to(`user:${participant}`).emit(...) for each
\* participant of the loaded chat, in order
FanOutTargets(c, ps) == <<ChatRoom(c)>> \o [i \in 1..Len(ps) |-> UserRoom(ps[i])]

RECURSIVE EmitToAll(_, _, _, _, _)
EmitToAll(st, rm, ib, targets, ev) ==
    IF targets = <<>> THEN ib
    ELSE EmitToAll(st, rm, IoToEmit(st, rm, ib, Head(targets), ev), Tail(targets), ev)

RECURSIVE LoggedAll(_, _, _, _)
LoggedAll(q, r, type, targets) ==
    IF targets = <<>> THEN q
    ELSE LoggedAll(Logged(q, r, type, Head(targets)), r, type, Tail(targets))

\* a variant that skips the fan-out when the sending socket is no longer connected
SendPopulateIfConnected(r, throws) ==
    /\ sends[r].pc = "populate"
    /\ IF throws
       THEN SendCatch(r)
       ELSE IF status[sends[r].socket] # "open"
       THEN sends' = SetPc(r, "done") /\ UNCHANGED inbox
       ELSE LET targets == FanOutTargets(sends[r].chatId, sends[r].doc.participants)
                ev == NewMessageEvent(r, sends[r].msg, messages[sends[r].msg])
            IN /\ inbox' = EmitToAll(status, rooms, inbox, targets, ev)
               /\ sends' = LoggedAll(SetPc(r, "done"), r, "new-message", targets)
    /\ UNCHANGED <<status, gateVars, quota, creates, onlineUsers, rooms, dbVars, typings>>

\* await message.populate("sender", ...) settles, then the fan-out runs without suspension
SendPopulate(r, throws) ==
    /\ sends[r].pc = "populate"
    /\ IF throws
       THEN SendCatch(r)
       ELSE LET targets == FanOutTargets(sends[r].chatId, sends[r].doc.participants)
                ev == NewMessageEvent(r, sends[r].msg, messages[sends[r].msg])
            IN /\ inbox' = EmitToAll(status, rooms, inbox, targets, ev)
               /\ sends' = LoggedAll(SetPc(r, "done"), r, "new-message", targets)
    /\ UNCHANGED <<status, gateVars, quota, creates, onlineUsers, rooms, dbVars, typings>>

\* ---------------------------------------------------------------- typing handler
\* Chat.findById(data.chatId)
FindById(db, c) == IF c \in DOMAIN db THEN db[c] ELSE NoChat

\* a variant that takes the first participant, whoever it is
OtherParticipantFirst(ps, u) == IF ps = <<>> THEN "" ELSE Head(ps)

\* chat.participants.find((p) => p._id.toString() !== userId): "" when there is none
RECURSIVE OtherParticipant(_, _)
OtherParticipant(ps, u) ==
    IF ps = <<>> THEN ""
    ELSE IF Head(ps) # u THEN Head(ps) ELSE OtherParticipant(Tail(ps), u)

\* a variant that also joins the sending socket to the chat's room
TypingJoins(s, c, b) ==
    /\ CanHandle(s)
    /\ Requests < quota
    /\ inbox' = SocketToEmit(status, rooms, inbox, s, ChatRoom(c),
                             [TypingEvent(userId[s], c, b) EXCEPT !.req = Len(typings) + 1])
    /\ typings' = Append(typings, [socket |-> s, userId |-> userId[s], chatId |-> c,
                                   isTyping |-> b, pc |-> "findById",
                                   out |-> <<ChatRoom(c)>>])
    /\ rooms' = [rooms EXCEPT ![s] = @ \cup {ChatRoom(c)}]
    /\ UNCHANGED <<status, gateVars, quota, creates, onlineUsers, dbVars, sends>>

\* the client's typing event arrives: socket.to(`chat:${chatId}`).emit("typing", typePayload),
\* then the handler suspends on Chat.findById
Typing(s, c, b) ==
    /\ CanHandle(s)
    /\ Requests < quota
    /\ inbox' = SocketToEmit(status, rooms, inbox, s, ChatRoom(c),
                             [TypingEvent(userId[s], c, b) EXCEPT !.req = Len(typings) + 1])
    /\ typings' = Append(typings, [socket |-> s, userId |-> userId[s], chatId |-> c,
                                   isTyping |-> b, pc |-> "findById",
                                   out |-> <<ChatRoom(c)>>])
    /\ UNCHANGED <<status, gateVars, quota, creates, onlineUsers, rooms, dbVars, sends>>

\* a variant whose catch block reports the failure to the sender
TypingFindByIdReports(t, throws) ==
    /\ typings[t].pc = "findById"
    /\ LET chat == FindById(chats, typings[t].chatId)
           other == OtherParticipant(chat.participants, typings[t].userId)
       IN IF throws
          THEN /\ typings' = [typings EXCEPT ![t].pc = "failed"]
               /\ inbox' = SocketEmit(status, inbox, typings[t].socket, ErrorEvent(t))
          ELSE IF chat = NoChat \/ other = ""
          THEN /\ typings' = [typings EXCEPT ![t].pc = "done"]
               /\ UNCHANGED inbox
          ELSE /\ typings' = [typings EXCEPT ![t].pc = "done",
                                             ![t].out = Append(@, UserRoom(other))]
               /\ inbox' = IoToEmit(status, rooms, inbox, UserRoom(other),
                                    [TypingEvent(typings[t].userId, typings[t].chatId,
                                                 typings[t].isTyping) EXCEPT !.req = t])
    /\ UNCHANGED <<status, gateVars, quota, creates, onlineUsers, rooms, dbVars, sends>>

\* await Chat.findById settles; a throw is swallowed by the empty catch
TypingFindById(t, throws) ==
    /\ typings[t].pc = "findById"
    /\ LET chat == FindById(chats, typings[t].chatId)
           other == OtherParticipant(chat.participants, typings[t].userId)
       IN IF throws
          THEN /\ typings' = [typings EXCEPT ![t].pc = "failed"]
               /\ UNCHANGED inbox
          ELSE IF chat = NoChat \/ other = ""
          THEN /\ typings' = [typings EXCEPT ![t].pc = "done"]
               /\ UNCHANGED inbox
          ELSE /\ typings' = [typings EXCEPT ![t].pc = "done",
                                             ![t].out = Append(@, UserRoom(other))]
               /\ inbox' = IoToEmit(status, rooms, inbox, UserRoom(other),
                                    [TypingEvent(typings[t].userId, typings[t].chatId,
                                                 typings[t].isTyping) EXCEPT !.req = t])
    /\ UNCHANGED <<status, gateVars, quota, creates, onlineUsers, rooms, dbVars, sends>>

\* ---------------------------------------------------------------- getOrCreateChat controller
\* req.params.participantId as clients send it: a user id, nothing, or a string that is no
\* ObjectId
NoParam == ""
ParticipantIds == Users \cup {NoParam, "zz"}

\* Types.ObjectId.isValid(participantId)
IsValidObjectId(p) == p \in Users

\* the _id a new Chat document is given: fresh for every document constructed
NewChatId(k) == "n" \o ToString(k)

\* the chats matched by { participants: { $all: [userId, participantId] } }
ChatsOfPair(db, u, p) ==
    {c \in DOMAIN db : InSeq(u, db[c].participants) /\ InSeq(p, db[c].participants)}

\* newChat.save(): the document is inserted into the Chat collection
InsertChat(db, id, ps) ==
    MapSet(db, id, [participants |-> ps, lastMessage |-> NoMessage, lastMessageAt |-> 0])

\* catch (error) { return next(error) }
CreateCatch(k) == creates' = [creates EXCEPT ![k].pc = "failed"]

\* a request arrives; the controller validates participantId and suspends on Chat.findOne
GetOrCreateChat(u, p) ==
    /\ Len(creates) < MaxChatRequests
    /\ creates' = Append(creates,
            [userId |-> u, participantId |-> p, chat |-> "",
             pc |-> IF p = NoParam \/ ~IsValidObjectId(p) \/ u = p
                    THEN "rejected" ELSE "findOne"])
    /\ UNCHANGED <<status, gateVars, quota, onlineUsers, rooms, inbox, dbVars, sends, typings>>

\* await Chat.findOne(...).populate(...).populate(...) settles: the chat found is returned,
\* or a new Chat is constructed and its save is issued
CreateFindOne(k, throws) ==
    /\ creates[k].pc = "findOne"
    /\ LET found == ChatsOfPair(chats, creates[k].userId, creates[k].participantId) IN
       IF throws THEN CreateCatch(k)
       ELSE IF found = {}
       THEN creates' = [creates EXCEPT ![k].pc = "save", ![k].chat = NewChatId(k)]
       ELSE \E c \in found : creates' = [creates EXCEPT ![k].pc = "done", ![k].chat = c]
    /\ UNCHANGED <<status, gateVars, quota, onlineUsers, rooms, inbox, dbVars, sends, typings>>

\* await newChat.save() settles
CreateSave(k, throws) ==
    /\ creates[k].pc = "save"
    /\ IF throws
       THEN CreateCatch(k) /\ UNCHANGED chats
       ELSE /\ chats' = InsertChat(chats, creates[k].chat,
                                   <<creates[k].userId, creates[k].participantId>>)
            /\ creates' = [creates EXCEPT ![k].pc = "populate"]
    /\ UNCHANGED <<status, gateVars, quota, onlineUsers, rooms, inbox, messages, clock,
                   sends, typings>>

\* await newChat.populate(...) settles; res.json({ _id: chat._id, ... })
CreatePopulate(k, throws) ==
    /\ creates[k].pc = "populate"
    /\ IF throws THEN CreateCatch(k)
       ELSE creates' = [creates EXCEPT ![k].pc = "done"]
    /\ UNCHANGED <<status, gateVars, quota, onlineUsers, rooms, inbox, dbVars, sends, typings>>

\* ---------------------------------------------------------------- specifications
\* the sockets that connect in the full specification
FullSockets == {"s1", "s2"}

GateNext ==
    \/ \E s \in Sockets, t \in Tokens, throws \in BOOLEAN : Authenticate(s, t, throws)
    \/ \E s \in Sockets : Connection(s)
    \/ \E s \in Sockets : Disconnect(s)

RoomNext ==
    \/ \E s \in Sockets : Disconnect(s)
    \/ \E s \in Sockets, c \in ChatIds : JoinChat(s, c)
    \/ \E s \in Sockets, c \in ChatIds : LeaveChat(s, c)

SendNext ==
    \/ \E s \in Sockets, c \in ChatIds, text \in Texts : SendMessage(s, c, text)
    \/ \E r \in 1..Len(sends), throws \in BOOLEAN : SendFindOne(r, throws)
    \/ \E r \in 1..Len(sends), throws \in BOOLEAN : SendCreate(r, throws)
    \/ \E r \in 1..Len(sends), throws \in BOOLEAN : SendSave(r, throws)
    \/ \E r \in 1..Len(sends), throws \in BOOLEAN : SendPopulate(r, throws)

TypingNext ==
    \/ \E s \in Sockets, c \in ChatIds, b \in BOOLEAN : Typing(s, c, b)
    \/ \E t \in 1..Len(typings), throws \in BOOLEAN : TypingFindById(t, throws)

ChatNext ==
    \/ \E u \in Users, p \in ParticipantIds : GetOrCreateChat(u, p)
    \/ \E k \in 1..Len(creates), throws \in BOOLEAN : CreateFindOne(k, throws)
    \/ \E k \in 1..Len(creates), throws \in BOOLEAN : CreateSave(k, throws)
    \/ \E k \in 1..Len(creates), throws \in BOOLEAN : CreatePopulate(k, throws)

Next ==
    \/ \E s \in FullSockets, t \in Tokens, throws \in BOOLEAN : Authenticate(s, t, throws)
    \/ \E s \in Sockets : Connection(s)
    \/ RoomNext
    \/ SendNext
    \/ TypingNext

\* the gateway after the sockets of SocketOrder[1..k] have connected in order, socket s
\* authenticated as who[s]
RECURSIVE Admitted(_, _)
Admitted(k, who) ==
    IF k = 0
    THEN [status |-> [s \in Sockets |-> "idle"], onlineUsers |-> <<>>,
          rooms |-> [s \in Sockets |-> {}], inbox |-> [s \in Sockets |-> <<>>]]
    ELSE IF who[SocketOrder[k]] = NoUser THEN Admitted(k - 1, who)
    ELSE ConnectionHandler(Admitted(k - 1, who), SocketOrder[k], who[SocketOrder[k]])

\* a token the verifier resolves to user u
TokenOf(u) ==
    CASE u = "u1" -> "t1"
      [] u = "u2" -> "t2"
      [] u = "u3" -> "t3"
      [] OTHER -> NoToken

\* the sessions the chat specifications start from: the first two sockets admitted, each as
\* any user; the third has not connected
Sessions == {who \in [Sockets -> Users \cup {NoUser}] :
                who["s1"] # NoUser /\ who["s2"] # NoUser /\ who["s3"] = NoUser}

\* the sessions in which the first socket belongs to the first participant of the stored chat
ViewingSessions == {who \in Sessions : who["s1"] = InitChats["c1"].participants[1]}

\* the gateway after the sessions' sockets have been admitted and each has emitted join-chat
\* for the chats of joined; the clients will issue n requests
Started(sessions, n, joined) ==
    \E who \in sessions :
        LET w == Admitted(Len(SocketOrder), who) IN
        /\ status = w.status
        /\ onlineUsers = w.onlineUsers
        /\ rooms = [s \in Sockets |->
                        IF who[s] = NoUser THEN w.rooms[s]
                        ELSE w.rooms[s] \cup {ChatRoom(c) : c \in joined}]
        /\ inbox = w.inbox
        /\ token = [s \in Sockets |-> TokenOf(who[s])]
        /\ userId = who
        /\ verifyCalls = {s \in Sockets : who[s] # NoUser}
        /\ chats = InitChats
        /\ messages = <<>>
        /\ sends = <<>>
        /\ typings = <<>>
        /\ quota = n
        /\ creates = <<>>
        /\ clock = 1

ChatStart(n) == Started(Sessions, n, {})

ChatInit == ChatStart(MaxRequests)
\* the same sessions, with clients that issue two requests
PairInit == ChatStart(MaxPairRequests)
\* every socket viewing the stored chat, with clients that issue two requests
ViewingInit == Started(ViewingSessions, MaxPairRequests, DOMAIN InitChats)

\* concurrent sends, typing signals for the stored chat and disconnects
FanOutNext ==
    \/ \E s \in Sockets : Disconnect(s)
    \/ SendNext
    \/ \E s \in Sockets, c \in DOMAIN InitChats : Typing(s, c, TRUE)
    \/ \E t \in 1..Len(typings) : TypingFindById(t, FALSE)

Spec == Init /\ [][Next]_vars
SpecGate == Init /\ [][GateNext]_vars
SpecSend == ChatInit /\ [][RoomNext \/ SendNext]_vars
SpecTyping == ChatInit /\ [][RoomNext \/ TypingNext]_vars
SpecPair == PairInit /\ [][RoomNext \/ SendNext]_vars
SpecFanOut == ViewingInit /\ [][FanOutNext]_vars
SpecChat == Init /\ [][ChatNext]_vars

\* ---------------------------------------------------------------- properties: presence
Range(f) == {f[x] : x \in DOMAIN f}
Online == MapKeys(onlineUsers)
Admitting(s) == status[s] = "authed" /\ status'[s] = "open"
Disconnecting(s) == status[s] = "open" /\ status'[s] = "closed"
EventsOfType(q, type) == {i \in 1..Len(q) : q[i].type = type}

\* C1: once the connection handler of a socket admitted as u has run, onlineUsers has the
\* key u; once the disconnect handler of that socket has run, onlineUsers has no key u.
C1_RegisteredThenRemoved ==
    [][\A s \in Sockets :
        /\ Admitting(s) => userId[s] \in MapKeys(onlineUsers')
        /\ Disconnecting(s) => userId[s] \notin MapKeys(onlineUsers')]_vars

\* C1 witness: a socket has been admitted and has disconnected while another socket of the
\* same user is still open, and the user has no entry.
C1_Witness ==
    \E s, x \in Sockets :
        /\ status[s] = "closed" /\ status[x] = "open"
        /\ userId[s] = userId[x]
        /\ userId[s] \notin Online

\* C2: onlineUsers has the key u exactly when some open socket is authenticated as u.
C2_OnlineIffOpenConnection ==
    \A u \in Users :
        u \in Online <=> \E s \in Sockets : status[s] = "open" /\ userId[s] = u

\* the handshake carries no credential: the token is absent or the empty string
NoCredential(t) == t = NoToken \/ t = ""

\* C3: a handshake with an absent or empty token is refused, verifyToken is never invoked
\* for it, and no onlineUsers entry ever refers to that socket.
C3_NoCredentialRefused ==
    \A s \in Sockets :
        status[s] # "idle" /\ NoCredential(token[s]) =>
            /\ status[s] = "rejected"
            /\ s \notin verifyCalls
            /\ userId[s] = NoUser
            /\ s \notin Range(onlineUsers)

\* C3 witness: one handshake without a token and one with the empty token have both been
\* refused while another socket is online.
C3_Witness ==
    \E s, x \in Sockets :
        /\ status[s] = "rejected" /\ token[s] = NoToken
        /\ status[x] = "rejected" /\ token[x] = ""
        /\ Online # {}

\* the handshake of s presented a token the verifier rejects, or one whose subject has no
\* user record
Unverifiable(s) ==
    /\ status[s] # "idle"
    /\ ~NoCredential(token[s])
    /\ \/ VerifyToken(token[s]) = "throws"
       \/ FindUser(VerifyToken(token[s])) = NoUser

\* C4: a handshake whose token the verifier rejects, or whose subject has no user record,
\* is refused and leaves no trace: the step that refuses it changes neither onlineUsers nor
\* any room membership nor any inbox, and the refused socket never is in a room, receives
\* an event, is referred to by onlineUsers, or has a send-message or typing handler run.
C4_Traceless(s) ==
    /\ status[s] = "rejected"
    /\ rooms[s] = {}
    /\ inbox[s] = <<>>
    /\ s \notin Range(onlineUsers)
    /\ \A r \in 1..Len(sends) : sends[r].socket # s
    /\ \A t \in 1..Len(typings) : typings[t].socket # s

C4_RefusedLeavesNoTrace ==
    /\ [](\A s \in Sockets : Unverifiable(s) => C4_Traceless(s))
    /\ [][\A s \in Sockets :
            status[s] = "idle" /\ Unverifiable(s)' =>
                onlineUsers' = onlineUsers /\ rooms' = rooms /\ inbox' = inbox]_vars

\* C4 witness: a socket whose token names a subject without a user record has been refused
\* while another socket is online, in a chat room, and has started a request.
C4_Witness ==
    \E s, x \in Sockets :
        /\ status[s] = "rejected" /\ token[s] = "t4"
        /\ status[x] = "open" /\ rooms[x] # {UserRoom(userId[x])}
        /\ Requests > 0

\* C8: the disconnect handler of s appends exactly one user-offline event carrying s's
\* user id to the inbox of every other open socket, and nothing to any other inbox.
C8_OfflineToEveryOther ==
    [][\A s \in Sockets : Disconnecting(s) =>
        \A x \in Sockets :
            inbox'[x] = IF x # s /\ status[x] = "open"
                        THEN Append(inbox[x], UserOfflineEvent(userId[s]))
                        ELSE inbox[x]]_vars

\* C8 witness: a socket has disconnected and two other open sockets hold its user-offline
\* event, while its own inbox holds none.
C8_Witness ==
    \E s, x, y \in Sockets :
        /\ Cardinality({s, x, y}) = 3
        /\ status[s] = "closed" /\ status[x] = "open" /\ status[y] = "open"
        /\ \E i \in 1..Len(inbox[x]) : inbox[x][i] = UserOfflineEvent(userId[s])
        /\ \E i \in 1..Len(inbox[y]) : inbox[y][i] = UserOfflineEvent(userId[s])
        /\ EventsOfType(inbox[s], "user-offline") = {}

\* C9: every admitted socket holds exactly one online-users event, as the first event of
\* its inbox, whose payload is the key set of onlineUsers at the moment the connection
\* handler started, and no other socket holds any.
C9_OneSnapshotFirst ==
    /\ [](\A s \in Sockets :
            IF status[s] \in {"open", "closed"}
            THEN EventsOfType(inbox[s], "online-users") = {1}
            ELSE EventsOfType(inbox[s], "online-users") = {})
    /\ [][\A s \in Sockets : Admitting(s) =>
            /\ inbox[s] = <<>>
            /\ inbox'[s][1] = OnlineUsersEvent(MapKeys(onlineUsers))]_vars

\* C9 witness: a second socket of an online user is admitted and finds its own user id in
\* the online-users payload, and has since received a later event.
C9_Witness ==
    \E s \in Sockets :
        /\ status[s] = "open"
        /\ Len(inbox[s]) > 1
        /\ userId[s] \in inbox[s][1].userIds

\* C10: the connection handler of s appends exactly one user-online event carrying s's
\* user id to the inbox of every other open socket, and none to the inbox of s.
C10_OnlineToEveryOther ==
    [][\A s \in Sockets : Admitting(s) =>
        /\ \A x \in Sockets \ {s} :
            inbox'[x] = IF status[x] = "open"
                        THEN Append(inbox[x], UserOnlineEvent(userId[s]))
                        ELSE inbox[x]
        /\ EventsOfType(inbox'[s], "user-online") = {}]_vars

\* C10 witness: the third socket is open and both earlier sockets are open and hold its
\* user-online event as their last event.
C10_Witness ==
    /\ \A s \in Sockets : status[s] = "open"
    /\ inbox["s1"][Len(inbox["s1"])] = UserOnlineEvent(userId["s3"])
    /\ inbox["s2"][Len(inbox["s2"])] = UserOnlineEvent(userId["s3"])
    /\ EventsOfType(inbox["s3"], "user-online") = {}

\* ---------------------------------------------------------------- properties: send-message
SendTypes == {"new-message", "socket-error", "error"}

\* positions in the inbox of socket x of the events the send-message invocation r caused
SendEvents(x, r) ==
    {i \in 1..Len(inbox[x]) : inbox[x][i].req = r /\ inbox[x][i].type \in SendTypes}
SendEventsOfType(x, r, type) == {i \in SendEvents(x, r) : inbox[x][i].type = type}

Participants(c) == IF c \in DOMAIN chats THEN Range(chats[c].participants) ELSE {}

\* the chat of invocation r does not exist or does not list the sender
NotParticipant(r) == sends[r].userId \notin Participants(sends[r].chatId)

\* every Message record belongs to an existing chat and was sent by one of its participants,
\* and a chat's last-message reference is NoMessage or a message of that chat
StoreConsistent ==
    /\ \A m \in 1..Len(messages) : messages[m].sender \in Participants(messages[m].chat)
    /\ \A c \in DOMAIN chats :
        chats[c].lastMessage # NoMessage =>
            /\ chats[c].lastMessage \in 1..Len(messages)
            /\ messages[chats[c].lastMessage].chat = c

\* invocation r created no Message and staged no chat update
NothingPersisted(r) == sends[r].msg = NoMessage /\ sends[r].lastMessage = NoMessage

\* C5 as stated: once the lookup of a send to a missing chat, or to a chat that does not list
\* the sender, has settled, no Message exists for it, no chat metadata has changed, the
\* sender's socket holds exactly one socket-error event for it, and no other socket holds
\* any event for it.
C5_ExactlyOneSocketError ==
    \A r \in 1..Len(sends) :
        NotParticipant(r) /\ sends[r].pc # "findOne" =>
            /\ NothingPersisted(r)
            /\ StoreConsistent
            /\ Cardinality(SendEvents(sends[r].socket, r)) = 1
            /\ Cardinality(SendEventsOfType(sends[r].socket, r, "socket-error")) = 1
            /\ \A x \in Sockets \ {sends[r].socket} : SendEvents(x, r) = {}

\* C5 as amended: such a send never creates a Message nor changes chat metadata and no
\* other socket ever holds an event for it; when the lookup returns, exactly one
\* socket-error is emitted to the sender's socket, and when the lookup throws, exactly one
\* error instead; the sender's socket holds that one event if it is still open, and at most
\* that one event otherwise.
C5_RejectedSendContained ==
    \A r \in 1..Len(sends) :
        NotParticipant(r) =>
            /\ NothingPersisted(r)
            /\ StoreConsistent
            /\ sends[r].pc \in {"findOne", "rejected", "failed"}
            /\ \A x \in Sockets \ {sends[r].socket} : SendEvents(x, r) = {}
            /\ sends[r].pc = "findOne" =>
                sends[r].out = <<>> /\ SendEvents(sends[r].socket, r) = {}
            /\ sends[r].pc = "rejected" =>
                /\ sends[r].out = << <<"socket-error", ("socket:" \o sends[r].socket) >> >>
                /\ SendEvents(sends[r].socket, r)
                        = SendEventsOfType(sends[r].socket, r, "socket-error")
            /\ sends[r].pc = "failed" =>
                /\ sends[r].out = << <<"error", ("socket:" \o sends[r].socket) >> >>
                /\ SendEvents(sends[r].socket, r)
                        = SendEventsOfType(sends[r].socket, r, "error")
            /\ Cardinality(SendEvents(sends[r].socket, r)) <= 1
            /\ sends[r].pc # "findOne" /\ status[sends[r].socket] = "open" =>
                Cardinality(SendEvents(sends[r].socket, r)) = 1

\* C5 witness: a socket joined to the room of an existing chat that does not list its user
\* has sent to that chat and holds the socket-error event.
C5_Witness ==
    \E r \in 1..Len(sends) :
        /\ NotParticipant(r)
        /\ sends[r].chatId \in DOMAIN chats
        /\ ChatRoom(sends[r].chatId) \in rooms[sends[r].socket]
        /\ sends[r].pc = "rejected"
        /\ SendEventsOfType(sends[r].socket, r, "socket-error") # {}

\* the targets of the emissions invocation r has made, in order
Targets(r) == [i \in 1..Len(sends[r].out) |-> sends[r].out[i][2]]
TimesEmittedTo(r, k) == Cardinality({i \in 1..Len(sends[r].out) : sends[r].out[i][2] = k})

\* the new-message event of invocation r as delivered through room k
Delivered(r, k) ==
    [NewMessageEvent(r, sends[r].msg,
        [chat |-> sends[r].chatId, sender |-> sends[r].userId, text |-> sends[r].text])
     EXCEPT !.via = k]

\* C6: a send by a participant that runs to completion has created exactly one Message,
\* with the chat, sender and text of the request; its chat.save() leaves the chat's
\* last-message reference on that message; it has emitted new-message exactly once to the
\* chat's room and exactly once to the personal room of each participant, to nothing else;
\* and every event delivered for it is that new-message event.
C6_OneMessageThreeEmissions ==
    /\ [](\A r \in 1..Len(sends) : sends[r].pc = "done" =>
            /\ ~NotParticipant(r)
            /\ sends[r].msg \in 1..Len(messages)
            /\ messages[sends[r].msg] = [chat |-> sends[r].chatId, sender |-> sends[r].userId,
                                         text |-> sends[r].text]
            /\ \A q \in 1..Len(sends) : q # r => sends[q].msg # sends[r].msg
            /\ Len(messages) = Cardinality({q \in 1..Len(sends) : sends[q].msg # NoMessage})
            /\ Len(sends[r].out) = 1 + Cardinality(Participants(sends[r].chatId))
            /\ \A i \in 1..Len(sends[r].out) : sends[r].out[i][1] = "new-message"
            /\ TimesEmittedTo(r, ChatRoom(sends[r].chatId)) = 1
            /\ \A u \in Participants(sends[r].chatId) : TimesEmittedTo(r, UserRoom(u)) = 1
            /\ \A x \in Sockets : \A i \in SendEvents(x, r) :
                    inbox[x][i] = Delivered(r, inbox[x][i].via))
    /\ [][\A r \in 1..Len(sends) :
            sends[r].pc = "save" /\ sends'[r].pc = "populate" =>
                chats'[sends[r].chatId].lastMessage = sends[r].msg]_vars

\* C6 witness: a send has completed, the chat's last-message reference is its message, and
\* an open socket of the other participant, joined to the chat's room, holds the event
\* twice, once through each room.
C6_Witness ==
    \E r \in 1..Len(sends) : \E x \in Sockets :
        /\ sends[r].pc = "done"
        /\ chats[sends[r].chatId].lastMessage = sends[r].msg
        /\ status[x] = "open" /\ userId[x] # sends[r].userId
        /\ \E i, j \in SendEvents(x, r) :
            /\ inbox[x][i].via = ChatRoom(sends[r].chatId)
            /\ inbox[x][j].via = UserRoom(userId[x])

\* invocation r passed validation and then failed
FailedAfterValidation(r) == sends[r].pc = "failed" /\ sends[r].doc # NoChat

\* C7: when a send has passed validation and Message.create, chat.save() or populate then
\* throws, exactly one error event has been emitted, to the sender's socket; no other
\* socket holds any event for that send, no socket holds a new-message event for it, and
\* the sender's socket holds exactly the one error event if it is still open.
C7_FailureYieldsOneError ==
    \A r \in 1..Len(sends) : FailedAfterValidation(r) =>
        /\ sends[r].out = << <<"error", ("socket:" \o sends[r].socket) >> >>
        /\ \A x \in Sockets : SendEventsOfType(x, r, "new-message") = {}
        /\ \A x \in Sockets \ {sends[r].socket} : SendEvents(x, r) = {}
        /\ SendEvents(sends[r].socket, r) = SendEventsOfType(sends[r].socket, r, "error")
        /\ Cardinality(SendEvents(sends[r].socket, r)) <= 1
        /\ status[sends[r].socket] = "open" => Cardinality(SendEvents(sends[r].socket, r)) = 1

\* C7 witness: the Message was created, a later step threw, and the open sender holds the
\* error event while the other participant's socket is open and joined to the chat's room.
C7_Witness ==
    \E r \in 1..Len(sends) : \E x \in Sockets :
        /\ FailedAfterValidation(r)
        /\ sends[r].msg # NoMessage
        /\ status[sends[r].socket] = "open"
        /\ SendEventsOfType(sends[r].socket, r, "error") # {}
        /\ status[x] = "open" /\ userId[x] # sends[r].userId
        /\ ChatRoom(sends[r].chatId) \in rooms[x]

\* ---------------------------------------------------------------- properties: typing relay
\* the events delivered to socket x in a step, and no event of x lost or rewritten
Arrived(x) == SubSeq(inbox'[x], Len(inbox[x]) + 1, Len(inbox'[x]))
KeepsInbox(x) ==
    /\ Len(inbox'[x]) >= Len(inbox[x])
    /\ SubSeq(inbox'[x], 1, Len(inbox[x])) = inbox[x]

\* the step in which typing invocation t arrives, and the one in which its lookup settles
TypingArrives(t) == Len(typings) = t - 1 /\ Len(typings') = t
TypingSettles(t) ==
    t <= Len(typings) /\ typings[t].pc = "findById" /\ typings'[t].pc # "findById"

\* e is the typing event of invocation record q with index t, delivered through room k
IsTypingOf(e, t, q, k) ==
    /\ e.type = "typing" /\ e.req = t /\ e.via = k
    /\ e.userId = q.userId /\ e.chatId = q.chatId /\ e.isTyping = q.isTyping

\* the typing events of invocation t that socket x holds, all and those through room k
TypingEvents(x, t) ==
    {i \in 1..Len(inbox[x]) : inbox[x][i].type = "typing" /\ inbox[x][i].req = t}
TypingEventsVia(x, t, k) == {i \in TypingEvents(x, t) : inbox[x][i].via = k}

\* the sender of typing record q is one of the two participants of its chat
ByParticipant(q) ==
    /\ q.chatId \in DOMAIN chats
    /\ q.userId \in Range(chats[q.chatId].participants)
    /\ Cardinality(Range(chats[q.chatId].participants)) = 2

\* x is an open connection of the other participant of the chat of typing record q
OfOtherParticipant(x, q) ==
    /\ status[x] = "open"
    /\ userId[x] \in Range(chats[q.chatId].participants) \ {q.userId}

\* C11: when a participant A of a two-party chat C = {A, B} sends a typing signal for C, an
\* open connection of B is delivered, in the step the signal arrives, one typing event
\* through chat:C if it is joined to chat:C and nothing otherwise, and, in the step the chat
\* lookup returns the chat, exactly one typing event through user:B; no other step delivers
\* it a typing event of that signal, and each event carries A's id, C and the flag sent.
C11_TypingReachesOther ==
    [][\A t \in 1..Len(typings') : \A x \in Sockets :
        LET q == typings'[t] IN
        (ByParticipant(q) /\ OfOtherParticipant(x, q)) =>
            /\ KeepsInbox(x)
            /\ TypingArrives(t) =>
                IF ChatRoom(q.chatId) \in rooms[x]
                THEN /\ Len(Arrived(x)) = 1
                     /\ IsTypingOf(Arrived(x)[1], t, q, ChatRoom(q.chatId))
                ELSE Arrived(x) = <<>>
            /\ (TypingSettles(t) /\ q.pc = "done") =>
                /\ Len(Arrived(x)) = 1
                /\ IsTypingOf(Arrived(x)[1], t, q, UserRoom(userId[x]))
            /\ (~TypingArrives(t) /\ ~TypingSettles(t)) =>
                \A i \in 1..Len(Arrived(x)) :
                    ~(Arrived(x)[i].type = "typing" /\ Arrived(x)[i].req = t)
      ]_vars

\* C11 witness: the lookup of a participant's typing signal has returned, and an open
\* connection of the other participant that was joined to the chat's room holds one typing
\* event through the room and one through its personal room.
C11_Witness ==
    \E t \in 1..Len(typings) : \E x \in Sockets :
        /\ typings[t].pc = "done"
        /\ ByParticipant(typings[t]) /\ OfOtherParticipant(x, typings[t])
        /\ Cardinality(TypingEventsVia(x, t, ChatRoom(typings[t].chatId))) = 1
        /\ Cardinality(TypingEventsVia(x, t, UserRoom(userId[x]))) = 1
        /\ Cardinality(TypingEvents(x, t)) = 2

\* C12: no connection authenticated as the sender of a typing signal, the sending
\* connection included, holds a typing event of that signal.
C12_NoEchoToSender ==
    \A t \in 1..Len(typings) : \A x \in Sockets :
        userId[x] = typings[t].userId => TypingEvents(x, t) = {}

\* the lookup of typing record q found no chat or threw
LookupFailed(q) == q.pc = "failed" \/ (q.pc = "done" /\ q.chatId \notin DOMAIN chats)

\* C13: in the step a typing signal arrives, every open member of the chat's room but the
\* sending socket is delivered exactly the typing event, and every other socket nothing; in
\* the step its lookup finds no chat or throws, no socket is delivered anything (no error,
\* no socket-error, no typing event through a personal room) and no emission is recorded
\* beyond the one to the chat's room.
C13_FailedLookupStaysSilent ==
    [][\A t \in 1..Len(typings') : \A x \in Sockets :
        LET q == typings'[t] IN
        /\ TypingArrives(t) =>
            /\ KeepsInbox(x)
            /\ IF x # q.socket /\ status[x] = "open" /\ ChatRoom(q.chatId) \in rooms[x]
               THEN /\ Len(Arrived(x)) = 1
                    /\ IsTypingOf(Arrived(x)[1], t, q, ChatRoom(q.chatId))
               ELSE Arrived(x) = <<>>
        /\ (TypingSettles(t) /\ LookupFailed(q)) =>
            /\ inbox'[x] = inbox[x]
            /\ q.out = <<ChatRoom(q.chatId)>>
      ]_vars

\* C13 witness: the lookup of a participant's typing signal for its chat threw; a socket
\* joined to the chat's room holds the typing event through the room, and no socket holds
\* an error event or a typing event through a personal room.
C13_Witness ==
    \E t \in 1..Len(typings) : \E x \in Sockets \ {typings[t].socket} :
        /\ typings[t].pc = "failed"
        /\ ByParticipant(typings[t])
        /\ status[x] = "open"
        /\ userId[x] # typings[t].userId
        /\ Cardinality(TypingEventsVia(x, t, ChatRoom(typings[t].chatId))) = 1
        /\ \A y \in Sockets :
            /\ EventsOfType(inbox[y], "error") \cup EventsOfType(inbox[y], "socket-error") = {}
            /\ TypingEvents(y, t) = TypingEventsVia(y, t, ChatRoom(typings[t].chatId))

\* ---------------------------------------------------------------- properties: room router
\* the sockets that are members of room k
Members(k) == {s \in Sockets : k \in rooms[s]}

\* C14: the members of user:X are exactly the open connections authenticated as X, whatever
\* chat identifiers join-chat and leave-chat have been called with.
C14_PersonalRoomIsOwn ==
    \A u \in Users : Members(UserRoom(u)) = {s \in Sockets : status[s] = "open" /\ userId[s] = u}

\* C14 witness: a connection of another identity has joined the chat room of the identifier
\* "user:u1" while a connection of u1 is open.
C14_Witness ==
    \E s, x \in Sockets :
        /\ status[s] = "open" /\ userId[s] = "u1"
        /\ status[x] = "open" /\ userId[x] # "u1"
        /\ ChatRoom(UserRoom("u1")) \in rooms[x]
        /\ Members(UserRoom("u1")) = {s}

\* C15: every new-message event a connection holds is for a chat that lists the
\* connection's identity as a participant.
C15_OnlyParticipantsReceive ==
    \A x \in Sockets : \A i \in EventsOfType(inbox[x], "new-message") :
        userId[x] \in Participants(inbox[x][i].chatId)

\* ---------------------------------------------------------------- properties: repeated admission
\* socket s is admitted while onlineUsers maps its identity to the open socket x
AdmittingOver(s, x) ==
    /\ Admitting(s)
    /\ userId[s] \in Online
    /\ onlineUsers[userId[s]] = x
    /\ x # s /\ status[x] = "open"

\* C16: when an identity whose entry maps to an open connection is admitted on a second
\* connection, the entry maps to the new connection afterwards, and the first connection
\* stays open and is delivered no event in that step.
C16_FirstConnectionUndisturbed ==
    [][\A s, x \in Sockets : AdmittingOver(s, x) =>
        /\ onlineUsers'[userId[s]] = s
        /\ status'[x] = "open"
        /\ inbox'[x] = inbox[x]
      ]_vars

\* C16, amended: the entry maps to the new connection afterwards; the first connection
\* stays open and keeps its room memberships, and the one event it is delivered in that
\* step is the user-online event of the admission, carrying its own identity.
C16_FirstConnectionOnlyNotified ==
    [][\A s, x \in Sockets : AdmittingOver(s, x) =>
        /\ onlineUsers'[userId[s]] = s
        /\ status'[x] = "open"
        /\ rooms'[x] = rooms[x]
        /\ KeepsInbox(x)
        /\ Len(Arrived(x)) = 1
        /\ Arrived(x)[1].type = "user-online"
        /\ Arrived(x)[1].userId = userId[s]
      ]_vars

\* C16 witness: two open connections of one identity, the entry maps to the later one, and
\* the last event the earlier one holds is the user-online event for its own identity.
C16_Witness ==
    \E s, x \in Sockets :
        /\ s # x /\ status[s] = "open" /\ status[x] = "open"
        /\ userId[s] = userId[x]
        /\ userId[s] \in Online /\ onlineUsers[userId[s]] = s
        /\ inbox[s] = <<>> \/ inbox[s][Len(inbox[s])].type = "online-users"
        /\ inbox[x] # <<>>
        /\ inbox[x][Len(inbox[x])].type = "user-online"
        /\ inbox[x][Len(inbox[x])].userId = userId[x]

\* ---------------------------------------------------------------- properties: concurrent sends
\* invocation r has left the handler
Settled(r) == sends[r].pc \in {"done", "rejected", "failed"}

\* the Message records of chat c
MessagesOf(c) == {m \in 1..Len(messages) : messages[m].chat = c}

\* C17: of two send-message events from the same connection, the Message of the earlier
\* one is created before the Message of the later one, and every connection that holds
\* new-message events of both holds those of the earlier one first.
C17_SameConnectionInOrder ==
    \A r1, r2 \in 1..Len(sends) :
        (r1 < r2 /\ sends[r1].socket = sends[r2].socket) =>
            /\ (sends[r1].msg # NoMessage /\ sends[r2].msg # NoMessage) =>
                    sends[r1].msg < sends[r2].msg
            /\ \A x \in Sockets :
                \A i \in SendEventsOfType(x, r1, "new-message") :
                    \A j \in SendEventsOfType(x, r2, "new-message") : i < j

\* C18: once every send issued has run to completion successfully, the lastMessage of each
\* chat that has Message records is the record created last among them.
C18_LastMessageIsNewest ==
    (\A r \in 1..Len(sends) : sends[r].pc = "done") =>
        \A c \in DOMAIN chats : \A m \in MessagesOf(c) :
            /\ chats[c].lastMessage \in MessagesOf(c)
            /\ m <= chats[c].lastMessage

\* ---------------------------------------------------------------- properties: sender departs mid-send
\* the socket that issued invocation r has disconnected
SenderDeparted(r) == status[sends[r].socket] = "closed"

\* invocation r is suspended on an await
Suspended(r) == sends[r].pc \in {"findOne", "create", "save", "populate"}

\* the await of invocation r settling without a throw
Resumes(r) ==
    \/ SendFindOne(r, FALSE)
    \/ SendCreate(r, FALSE)
    \/ SendSave(r, FALSE)
    \/ SendPopulate(r, FALSE)

\* the rooms of the fan-out of invocation r that socket x is a member of, in emission order
RoomsReached(x, r) ==
    LET ps == chats[sends[r].chatId].participants IN
    SelectSeq(<<ChatRoom(sends[r].chatId)>> \o [i \in 1..Len(ps) |-> UserRoom(ps[i])],
              LAMBDA k : k \in rooms[x])

\* C19: a send whose socket has disconnected is not cancelled: its pending await can still
\* settle; when Message.create settles the Message is stored, when chat.save() settles the
\* chat's lastMessage is that Message, and when populate settles every open socket is
\* delivered the new-message event once for each room of the fan-out (the chat's room and
\* the participants' personal rooms) it is a member of; no step delivers anything to the
\* departed socket.
C19_DepartedSenderStillSends ==
    /\ [](\A r \in 1..Len(sends) : (Suspended(r) /\ SenderDeparted(r)) => ENABLED Resumes(r))
    /\ [][\A r \in 1..Len(sends) : SenderDeparted(r) =>
            /\ inbox'[sends[r].socket] = inbox[sends[r].socket]
            /\ (sends[r].pc = "create" /\ sends'[r].pc = "save") =>
                    messages' = Append(messages, [chat |-> sends[r].chatId,
                                                  sender |-> sends[r].userId,
                                                  text |-> sends[r].text])
            /\ (sends[r].pc = "save" /\ sends'[r].pc = "populate") =>
                    chats'[sends[r].chatId].lastMessage = sends[r].msg
            /\ (sends[r].pc = "populate" /\ sends'[r].pc = "done") =>
                    \A x \in Sockets \ {sends[r].socket} :
                        /\ KeepsInbox(x)
                        /\ Len(Arrived(x)) = IF status[x] = "open"
                                             THEN Len(RoomsReached(x, r)) ELSE 0
                        /\ \A i \in 1..Len(Arrived(x)) :
                                Arrived(x)[i] = Delivered(r, RoomsReached(x, r)[i])
      ]_vars

\* C19 witness: a send has completed after its socket disconnected: the Message is stored,
\* the chat's lastMessage is that Message, the departed socket holds no event of the send,
\* and an open socket of the other participant, joined to the chat's room, holds the
\* user-offline event of the sender and, after it, the new-message event twice.
C19_Witness ==
    \E r \in 1..Len(sends) : \E x \in Sockets :
        /\ sends[r].pc = "done" /\ SenderDeparted(r)
        /\ sends[r].msg \in 1..Len(messages)
        /\ chats[sends[r].chatId].lastMessage = sends[r].msg
        /\ SendEvents(sends[r].socket, r) = {}
        /\ status[x] = "open" /\ userId[x] # sends[r].userId
        /\ Cardinality(SendEventsOfType(x, r, "new-message")) = 2
        /\ \E i \in EventsOfType(inbox[x], "user-offline") :
            /\ inbox[x][i].userId = sends[r].userId
            /\ \A j \in SendEvents(x, r) : i < j

\* ---------------------------------------------------------------- properties: handlers and gateway state
\* a step of a send-message or typing handler: an arrival or the settling of an await
HandlerStep == sends' # sends \/ typings' # typings

\* C20: every step of a send-message handler (arrival, rejection, persistence, failure,
\* fan-out) and of a typing handler leaves onlineUsers, every socket's rooms and every
\* socket's connection state as they were, so the issuing socket stays open and admitted.
C20_HandlersKeepGatewayState ==
    [][HandlerStep =>
        /\ onlineUsers' = onlineUsers
        /\ rooms' = rooms
        /\ status' = status
        /\ userId' = userId
        /\ \A s \in Sockets : CanHandle(s) => CanHandle(s)'
      ]_vars

\* C20 witness: a send failed after its Message was created, and its socket is still open,
\* registered, and a member of its personal room and of the chat's room.
C20_Witness ==
    \E r \in 1..Len(sends) :
        LET s == sends[r].socket IN
        /\ FailedAfterValidation(r) /\ sends[r].msg # NoMessage
        /\ CanHandle(s)
        /\ s \in Range(onlineUsers)
        /\ rooms[s] = {UserRoom(userId[s]), ChatRoom(sends[r].chatId)}

\* ---------------------------------------------------------------- properties: double delivery
\* 1 when the condition holds, 0 otherwise
Count(b) == IF b THEN 1 ELSE 0

\* the new-message events of invocation r among the events delivered to x in a step
ArrivedOf(x, r) ==
    {i \in 1..Len(Arrived(x)) : Arrived(x)[i].type = "new-message" /\ Arrived(x)[i].req = r}

\* C21: in the step the fan-out of a successful send to chat C runs, each open socket is
\* delivered the new-message event as many times as (1 if it is a member of chat:C) +
\* (1 if its identity is a participant of C), each time with the Message of that send, and
\* nothing else; a socket that is not open is delivered nothing; no other step delivers a
\* new-message event of that send.
C21_DoubleDelivery ==
    [][\A r \in 1..Len(sends) : \A x \in Sockets :
        IF sends[r].pc = "populate" /\ sends'[r].pc = "done"
        THEN /\ KeepsInbox(x)
             /\ Len(Arrived(x)) = Cardinality(ArrivedOf(x, r))
             /\ \A i \in ArrivedOf(x, r) : Arrived(x)[i].msg = sends[r].msg
             /\ Cardinality(ArrivedOf(x, r)) =
                    IF status[x] = "open"
                    THEN Count(ChatRoom(sends[r].chatId) \in rooms[x])
                         + Count(userId[x] \in Participants(sends[r].chatId))
                    ELSE 0
        ELSE ArrivedOf(x, r) = {}
      ]_vars

\* C21 witness: a completed send for which one open socket of a participant holds the event
\* twice (it is joined to the chat's room), and another open socket holds it exactly once.
C21_Witness ==
    \E r \in 1..Len(sends) : \E x, y \in Sockets :
        /\ sends[r].pc = "done"
        /\ status[x] = "open" /\ status[y] = "open"
        /\ userId[x] \in Participants(sends[r].chatId)
        /\ ChatRoom(sends[r].chatId) \in rooms[x]
        /\ Cardinality(SendEventsOfType(x, r, "new-message")) = 2
        /\ Cardinality(SendEventsOfType(y, r, "new-message")) = 1

\* ---------------------------------------------------------------- properties: typing by a non-participant
\* C22: a typing signal for a chat that does not list the sender's identity as a participant
\* puts no typing event into any socket through a personal room.
C22_OutsiderTypingUnrouted ==
    \A t \in 1..Len(typings) :
        typings[t].userId \notin Participants(typings[t].chatId) =>
            \A x \in Sockets : \A u \in Users : TypingEventsVia(x, t, UserRoom(u)) = {}

\* ---------------------------------------------------------------- properties: registry entries
\* C23: every entry u -> h of onlineUsers refers to a socket h that is open and was
\* admitted as u.
C23_EntriesAreOpenAndOwn ==
    \A u \in DOMAIN onlineUsers :
        /\ onlineUsers[u] \in Sockets
        /\ status[onlineUsers[u]] = "open"
        /\ userId[onlineUsers[u]] = u

\* C23 witness: a user with two open sockets has an entry, which maps to one of them, while
\* another socket has disconnected.
C23_Witness ==
    \E u \in DOMAIN onlineUsers : \E x, y \in Sockets :
        /\ x # onlineUsers[u] /\ status[x] = "open" /\ userId[x] = u
        /\ status[onlineUsers[u]] = "open"
        /\ status[y] = "closed"

\* ---------------------------------------------------------------- properties: client presence view
\* the set of online users a client derives from the events q it has received: the payload
\* of online-users, plus every user-online, minus every user-offline received since
RECURSIVE View(_)
View(q) ==
    IF q = <<>> THEN {}
    ELSE LET e == q[Len(q)]
             v == View(SubSeq(q, 1, Len(q) - 1))
         IN CASE e.type = "online-users" -> e.userIds
              [] e.type = "user-online" -> v \cup {e.userId}
              [] e.type = "user-offline" -> v \ {e.userId}
              [] OTHER -> v

\* C24: for every open socket c and every user u other than the one c is authenticated as,
\* u is in the view c derives from the events delivered to it exactly when onlineUsers has
\* an entry for u.
C24_ViewTracksRegistry ==
    \A c \in Sockets : status[c] = "open" =>
        \A u \in Users \ {userId[c]} : u \in View(inbox[c]) <=> u \in Online

\* C24 witness: an open socket has received the user-online event of another user and,
\* later, that user's user-offline event; its view lacks the user, who has no entry.
C24_Witness ==
    \E c \in Sockets : \E w \in Users \ {userId[c]} :
        /\ status[c] = "open"
        /\ w \notin View(inbox[c]) /\ w \notin Online
        /\ \E i \in EventsOfType(inbox[c], "user-online") :
            \E j \in EventsOfType(inbox[c], "user-offline") :
                i < j /\ inbox[c][i].userId = w /\ inbox[c][j].userId = w

\* ---------------------------------------------------------------- properties: fan-out atomicity
\* positions in the inbox of socket x of the new-message events of invocation r
Deliveries(x, r) == SendEventsOfType(x, r, "new-message")

\* every position of a precedes every position of b
AllBefore(a, b) == \A i \in a : \A j \in b : i < j

\* C25: in every socket the new-message events of one send are consecutive, with no event
\* of any other handler between them; of two sends, a socket that holds events of both
\* holds all of one before any of the other, and every such socket holds them in the same
\* order.
C25_FanOutIsAtomic ==
    LET D == [x \in Sockets |-> [r \in 1..Len(sends) |-> Deliveries(x, r)]] IN
    /\ \A x \in Sockets : \A r \in 1..Len(sends) :
        \A i, j \in D[x][r] : \A k \in i..j : k \in D[x][r]
    /\ \A r1, r2 \in 1..Len(sends) : r1 < r2 =>
        \A x \in Sockets : (D[x][r1] # {} /\ D[x][r2] # {}) =>
            /\ AllBefore(D[x][r1], D[x][r2]) \/ AllBefore(D[x][r2], D[x][r1])
            /\ \A y \in Sockets : (D[y][r1] # {} /\ D[y][r2] # {}) =>
                (AllBefore(D[x][r1], D[x][r2]) <=> AllBefore(D[y][r1], D[y][r2]))

\* C25 witness: two sends have completed, the one issued later fanned out first, and two
\* sockets each hold two events of each send, those of the later send first.
C25_Witness ==
    \E r1, r2 \in 1..Len(sends) : \E x, y \in Sockets :
        /\ r1 < r2 /\ x # y
        /\ sends[r1].pc = "done" /\ sends[r2].pc = "done"
        /\ Cardinality(Deliveries(x, r1)) = 2 /\ Cardinality(Deliveries(x, r2)) = 2
        /\ Cardinality(Deliveries(y, r1)) = 2 /\ Cardinality(Deliveries(y, r2)) = 2
        /\ AllBefore(Deliveries(x, r2), Deliveries(x, r1))
        /\ AllBefore(Deliveries(y, r2), Deliveries(y, r1))

\* ---------------------------------------------------------------- properties: getOrCreateChat
\* C26: no two Chat documents have the same set of participants, every Chat has exactly two
\* distinct participants, and any two requests for the same pair of users that returned a
\* chat returned the same chat identifier.
C26_OneChatPerPair ==
    /\ \A c, d \in DOMAIN chats :
        Range(chats[c].participants) = Range(chats[d].participants) => c = d
    /\ \A c \in DOMAIN chats :
        Len(chats[c].participants) = 2 /\ Cardinality(Range(chats[c].participants)) = 2
    /\ \A j, k \in 1..Len(creates) :
        (/\ creates[j].pc = "done" /\ creates[k].pc = "done"
         /\ {creates[j].userId, creates[j].participantId}
                = {creates[k].userId, creates[k].participantId}) =>
            creates[j].chat = creates[k].chat

====
